---- MODULE Spec2Model ----
(***************************************************************************)
(* A model of discover_jenkins/runner.py: the task resolver get_tasks, the *)
(* CIRunner constructor and the three lifecycle methods of the CIRunner    *)
(* mixin (setup_test_environment, run_suite, teardown_test_environment).   *)
(*                                                                         *)
(* The program is single-threaded and synchronous.  Every public call is   *)
(* one action; the calls that the body of a method makes on its            *)
(* collaborators (the wrapped runner, the task instances, the text test    *)
(* runner, the XML result) are recorded, in the order the code makes them, *)
(* in `trace`, the event log of the most recent call.  `outcome` is what   *)
(* that call returned or raised.                                           *)
(***************************************************************************)
EXTENDS Integers, Sequences, FiniteSets, TLC

VARIABLES
    settingsTASKS,  \* the attribute TASKS of the settings module, now
    TASKS,          \* the global TASKS of the runner module (line 10)
    runner,         \* the CIRunner instance most recently constructed
    call,           \* the most recent call: its name and its arguments
    trace,          \* the collaborator calls made by the most recent call
    outcome         \* what the most recent call returned or raised

vars == <<settingsTASKS, TASKS, runner, call, trace, outcome>>

(***************************************************************************)
(* Bounds of the model.                                                    *)
(***************************************************************************)
MaxTasks == 2

(***************************************************************************)
(* The environment: the importable modules and the hooks of their classes. *)
(* A task descriptor is a string, modelled as a sequence of characters.    *)
(***************************************************************************)
HookNames == {"setup_test_environment", "before_suite_run",
              "after_suite_run", "teardown_test_environment"}

\* The task classes of the environment and the hooks each one defines.
\* Class A defines every hook, class B defines none.
TaskClasses == {"A", "B"}

ClassHooks(cls) == IF cls = "A" THEN HookNames ELSE {}

\* hasattr(task, name)
hasattr(task, name) == name \in ClassHooks(task.cls)

\* The descriptors a configuration may hold.
Descriptors ==
    { <<"m", ".", "A">>,            \* module m, class A
      <<"p", ".", "m", ".", "B">>,  \* module p.m, class B
      <<"A">>,                      \* no separator
      <<"x", ".", "A">>,            \* no module x
      <<"m", ".", "Z">>,            \* module m has no Z
      <<".", "A">> }                \* empty module name

RECURSIVE SeqsUpTo(_, _)
SeqsUpTo(S, n) ==
    IF n = 0 THEN {<<>>}
    ELSE LET shorter == SeqsUpTo(S, n - 1)
         IN  shorter \cup {Append(s, x) : s \in shorter, x \in S}

\* The values the configured task list may have.
TaskLists == SeqsUpTo(Descriptors, MaxTasks)

\* The values a later replacement of the configured list may have: the empty
\* list and the lists of one descriptor.
ReplacementLists == {<<>>} \cup {<<d>> : d \in Descriptors}

Kwargs     == {"kw1", "kw2"}
Suites     == {"s1", "s2"}
OutputDirs == {"None", "reports"}
Options    == {"o1", "o2"}

(***************************************************************************)
(* Events of the trace.                                                    *)
(***************************************************************************)
Event(kind, name, pos, arg, suite) ==
    [kind |-> kind, name |-> name, pos |-> pos, arg |-> arg, suite |-> suite]

NoOutcome == [exc |-> "none", value |-> "none", classes |-> <<>>]

Raised(exc) == [exc |-> exc, value |-> "none", classes |-> <<>>]

Returned(value) == [exc |-> "none", value |-> value, classes |-> <<>>]

(***************************************************************************)
(* get_tasks (lines 13-32).                                                *)
(***************************************************************************)
\* The index of the last "." of s, or 0.
LastDot(s) ==
    IF \E i \in 1..Len(s) : s[i] = "."
    THEN CHOOSE i \in 1..Len(s) :
            s[i] = "." /\ \A j \in (i + 1)..Len(s) : s[j] # "."
    ELSE 0

\* task_path.rsplit('.', 1): the list of the parts.
rsplit(s) ==
    LET k == LastDot(s)
    IN  IF k = 0 THEN <<s>>
        ELSE <<SubSeq(s, 1, k - 1), SubSeq(s, k + 1, Len(s))>>

\* import_module(module): the exception it raises, or "none".
import_module(module) ==
    CASE module = <<>>      -> "ValueError"     \* Empty module name
      [] module # <<>> /\ module[1] = "." -> "TypeError"  \* relative import
      [] module = <<"m">>   -> "none"
      [] module = <<"p", ".", "m">> -> "none"
      [] OTHER              -> "ImportError"

\* getattr(mod, classname): the class, or "AttributeError".
getattr(module, classname) ==
    CASE module = <<"m">> /\ classname = <<"A">> -> "A"
      [] module = <<"p", ".", "m">> /\ classname = <<"B">> -> "B"
      [] OTHER -> "AttributeError"

\* The loop of get_tasks over `paths` from index i on.
RECURSIVE get_tasks_loop(_, _, _, _)
get_tasks_loop(paths, i, task_classes, events) ==
    IF i > Len(paths)
    THEN [exc |-> "none", classes |-> task_classes, events |-> events]
    ELSE
      LET parts == rsplit(paths[i])
      IN
      IF Len(parts) # 2
      THEN [exc |-> "ImproperlyConfigured", classes |-> <<>>,
            events |-> Append(events, Event("raise", "rsplit", i, "-", "-"))]
      ELSE
        LET module    == parts[1]
            classname == parts[2]
            imp       == import_module(module)
            ev1       == Append(events, Event("import", "import_module", i, "-", "-"))
        IN
        IF imp = "ImportError"
        THEN [exc |-> "ImproperlyConfigured", classes |-> <<>>,
              events |-> Append(ev1, Event("raise", "import_module", i, "-", "-"))]
        ELSE IF imp # "none"
        THEN [exc |-> imp, classes |-> <<>>,
              events |-> Append(ev1, Event("raise", "import_module", i, "-", "-"))]
        ELSE
          LET task_class == getattr(module, classname)
              ev2        == Append(ev1, Event("getattr", "getattr", i, "-", "-"))
          IN
          IF task_class = "AttributeError"
          THEN [exc |-> "ImproperlyConfigured", classes |-> <<>>,
                events |-> Append(ev2, Event("raise", "getattr", i, "-", "-"))]
          ELSE get_tasks_loop(paths, i + 1, Append(task_classes, task_class), ev2)

\* Variant of get_tasks that looks the list up in settings on every call.
get_tasks_from_settings == get_tasks_loop(settingsTASKS, 1, <<>>, <<>>)

\* get_tasks(): iterates the global TASKS of the runner module.
get_tasks == get_tasks_loop(TASKS, 1, <<>>, <<>>)

\* No instance: the state before construction.
NoRunner == [constructed |-> FALSE, jenkins |-> FALSE, output_dir |-> "unset",
             tasks |-> <<>>]

(***************************************************************************)
(* CIRunner.__init__ (lines 69-83).                                        *)
(***************************************************************************)
\* Variant of instantiate_loop that makes one instance per distinct class.
RECURSIVE instantiate_loop_dedup(_, _, _, _, _, _, _)
instantiate_loop_dedup(task_classes, output_dir, options, ctorRaiser, i, tasks, events) ==
    IF i > Len(task_classes)
    THEN [raised |-> FALSE, tasks |-> tasks, events |-> events]
    ELSE IF \E j \in 1..Len(tasks) : tasks[j].cls = task_classes[i]
    THEN instantiate_loop_dedup(task_classes, output_dir, options, ctorRaiser, i + 1,
                                tasks, events)
    ELSE
      LET ev == Append(events, Event("instantiate", task_classes[i], i, output_dir, "-"))
      IN  IF i = ctorRaiser
          THEN [raised |-> TRUE, tasks |-> <<>>,
                events |-> Append(ev, Event("raise", "instantiate", i, "-", "-"))]
          ELSE instantiate_loop_dedup(task_classes, output_dir, options, ctorRaiser, i + 1,
                   Append(tasks, [cls |-> task_classes[i], output_dir |-> output_dir,
                                  options |-> options]),
                   ev)

\* The loop that instantiates the tasks (lines 80-83), from index i on.
\* ctorRaiser is the position of the class whose constructor raises, or 0.
RECURSIVE instantiate_loop(_, _, _, _, _, _, _)
instantiate_loop(task_classes, output_dir, options, ctorRaiser, i, tasks, events) ==
    IF i > Len(task_classes)
    THEN [raised |-> FALSE, tasks |-> tasks, events |-> events]
    ELSE
      LET ev == Append(events, Event("instantiate", task_classes[i], i, output_dir, "-"))
      IN  IF i = ctorRaiser
          THEN [raised |-> TRUE, tasks |-> <<>>,
                events |-> Append(ev, Event("raise", "instantiate", i, "-", "-"))]
          ELSE instantiate_loop(task_classes, output_dir, options, ctorRaiser, i + 1,
                   Append(tasks, [cls |-> task_classes[i], output_dir |-> output_dir,
                                  options |-> options]),
                   ev)

\* CIRunner(jenkins, output_dir, **options): the new instance, the events and
\* the outcome.  When jenkins is false the attributes output_dir and tasks
\* are never set.
CIRunner_init(jenkins, output_dir, options, superRaises, ctorRaiser) ==
    LET ev0 == <<Event("super", "__init__", 0, options, "-")>>
    IN
    IF superRaises
    THEN [self |-> NoRunner, outcome |-> Raised("SuperError"),
          events |-> Append(ev0, Event("raise", "super", 0, "-", "-"))]
    ELSE IF ~jenkins
    THEN [self |-> [constructed |-> TRUE, jenkins |-> FALSE, output_dir |-> "unset",
                    tasks |-> <<>>],
          outcome |-> Returned("runner"), events |-> ev0]
    ELSE
      LET r == get_tasks
      IN
      IF r.exc # "none"
      THEN [self |-> NoRunner, outcome |-> Raised(r.exc), events |-> ev0 \o r.events]
      ELSE
        LET t == instantiate_loop(r.classes, output_dir, options, ctorRaiser, 1,
                                  <<>>, ev0 \o r.events)
        IN  IF t.raised
            THEN [self |-> NoRunner, outcome |-> Raised("TaskError"), events |-> t.events]
            ELSE [self |-> [constructed |-> TRUE, jenkins |-> TRUE,
                            output_dir |-> output_dir, tasks |-> t.tasks],
                  outcome |-> Returned("runner"), events |-> t.events]

(***************************************************************************)
(* Hook dispatch: for task in self.tasks: if hasattr(task, hook): ...      *)
(* (lines 102-104, 108-110, 123-125, 134-136).                             *)
(***************************************************************************)
\* Variant of dispatch without the hasattr test: every task is called.
RECURSIVE dispatch_without_hasattr(_, _, _, _, _, _)
dispatch_without_hasattr(tasks, hook, kwargs, suite, raiser, i) ==
    IF i > Len(tasks)
    THEN [raised |-> FALSE, events |-> <<>>]
    ELSE IF i = raiser
    THEN [raised |-> TRUE,
          events |-> <<Event("hook", hook, i, kwargs, suite),
                       Event("raise", hook, i, "-", "-")>>]
    ELSE LET rest == dispatch_without_hasattr(tasks, hook, kwargs, suite, raiser, i + 1)
         IN  [raised |-> rest.raised,
              events |-> <<Event("hook", hook, i, kwargs, suite)>> \o rest.events]

\* Variant of dispatch that isolates the tasks: after a hook raised, the
\* remaining tasks are still called, and the exception is raised at the end.
RECURSIVE dispatch_isolating(_, _, _, _, _, _)
dispatch_isolating(tasks, hook, kwargs, suite, raiser, i) ==
    IF i > Len(tasks)
    THEN [raised |-> FALSE, events |-> <<>>]
    ELSE IF hasattr(tasks[i], hook)
    THEN LET rest == dispatch_isolating(tasks, hook, kwargs, suite, raiser, i + 1)
         IN  IF i = raiser
             THEN [raised |-> TRUE,
                   events |-> <<Event("hook", hook, i, kwargs, suite),
                                Event("raise", hook, i, "-", "-")>> \o rest.events]
             ELSE [raised |-> rest.raised,
                   events |-> <<Event("hook", hook, i, kwargs, suite)>> \o rest.events]
    ELSE dispatch_isolating(tasks, hook, kwargs, suite, raiser, i + 1)

\* raiser is the position of the task whose hook raises when called, or 0.
RECURSIVE dispatch(_, _, _, _, _, _)
dispatch(tasks, hook, kwargs, suite, raiser, i) ==
    IF i > Len(tasks)
    THEN [raised |-> FALSE, events |-> <<>>]
    ELSE IF hasattr(tasks[i], hook)
    THEN IF i = raiser
         THEN [raised |-> TRUE,
               events |-> <<Event("hook", hook, i, kwargs, suite),
                            Event("raise", hook, i, "-", "-")>>]
         ELSE LET rest == dispatch(tasks, hook, kwargs, suite, raiser, i + 1)
              IN  [raised |-> rest.raised,
                   events |-> <<Event("hook", hook, i, kwargs, suite)>> \o rest.events]
    ELSE dispatch(tasks, hook, kwargs, suite, raiser, i + 1)

(***************************************************************************)
(* setup_test_environment (lines 99-104).                                  *)
(***************************************************************************)
\* Variant of setup_test_environment that calls the wrapped runner last.
setup_wrapped_last(self, kwargs, superRaises, raiser) ==
    LET ev0 == <<Event("super", "setup_test_environment", 0, kwargs, "-")>>
        d   == IF self.jenkins
               THEN dispatch(self.tasks, "setup_test_environment", kwargs, "-", raiser, 1)
               ELSE [raised |-> FALSE, events |-> <<>>]
    IN
    IF d.raised
    THEN [outcome |-> Raised("TaskError"), events |-> d.events]
    ELSE IF superRaises
    THEN [outcome |-> Raised("SuperError"),
          events |-> Append(d.events \o ev0, Event("raise", "super", 0, "-", "-"))]
    ELSE [outcome |-> Returned("None"), events |-> d.events \o ev0]

setup_test_environment(self, kwargs, superRaises, raiser) ==
    LET ev0 == <<Event("super", "setup_test_environment", 0, kwargs, "-")>>
    IN
    IF superRaises
    THEN [outcome |-> Raised("SuperError"),
          events |-> Append(ev0, Event("raise", "super", 0, "-", "-"))]
    ELSE IF self.jenkins
    THEN LET d == dispatch(self.tasks, "setup_test_environment", kwargs, "-", raiser, 1)
         IN  [outcome |-> IF d.raised THEN Raised("TaskError") ELSE Returned("None"),
              events |-> ev0 \o d.events]
    ELSE [outcome |-> Returned("None"), events |-> ev0]

(***************************************************************************)
(* run_suite (lines 106-129).                                              *)
(***************************************************************************)
\* The result of unittest.TextTestRunner(resultclass=XMLTestResult).run(suite)
XMLResult(suite) == IF suite = "s1" THEN "xml_s1" ELSE "xml_s2"

\* The result of the wrapped runner's run_suite(suite)
WrappedResult(suite) == IF suite = "s1" THEN "wrapped_s1" ELSE "wrapped_s2"

\* Variant of run_suite that dumps the XML result whatever the mode.
run_suite_always_dumps(self, suite, kwargs, f) ==
    LET ev0 == <<Event("super", "run_suite", 0, kwargs, suite)>>
    IN
    IF self.jenkins
    THEN
      LET b   == dispatch(self.tasks, "before_suite_run", kwargs, suite, f.before, 1)
          ev1 == Append(b.events, Event("run", "TextTestRunner.run", 0, "-", suite))
          ev2 == Append(ev1, Event("dump_xml", "dump_xml", 0, self.output_dir, suite))
          a   == dispatch(self.tasks, "after_suite_run", kwargs, suite, f.after, 1)
      IN
      IF b.raised
      THEN [outcome |-> Raised("TaskError"), events |-> b.events]
      ELSE IF f.run
      THEN [outcome |-> Raised("SuiteError"),
            events |-> Append(ev1, Event("raise", "run", 0, "-", "-"))]
      ELSE IF f.dump
      THEN [outcome |-> Raised("DumpError"),
            events |-> Append(ev2, Event("raise", "dump_xml", 0, "-", "-"))]
      ELSE IF a.raised
      THEN [outcome |-> Raised("TaskError"), events |-> ev2 \o a.events]
      ELSE [outcome |-> Returned(XMLResult(suite)), events |-> ev2 \o a.events]
    ELSE IF f.super
    THEN [outcome |-> Raised("SuperError"),
          events |-> Append(ev0, Event("raise", "super", 0, "-", "-"))]
    ELSE [outcome |-> Returned(WrappedResult(suite)),
          events |-> Append(ev0, Event("dump_xml", "dump_xml", 0, self.output_dir, suite))]

\* Variant of run_suite that dumps the XML result after the after_suite_run
\* hooks.
run_suite_dumps_last(self, suite, kwargs, f) ==
    IF self.jenkins
    THEN
      LET b   == dispatch(self.tasks, "before_suite_run", kwargs, suite, f.before, 1)
          ev1 == Append(b.events, Event("run", "TextTestRunner.run", 0, "-", suite))
          a   == dispatch(self.tasks, "after_suite_run", kwargs, suite, f.after, 1)
          ev2 == Append(ev1 \o a.events,
                        Event("dump_xml", "dump_xml", 0, self.output_dir, suite))
      IN
      IF b.raised
      THEN [outcome |-> Raised("TaskError"), events |-> b.events]
      ELSE IF f.run
      THEN [outcome |-> Raised("SuiteError"),
            events |-> Append(ev1, Event("raise", "run", 0, "-", "-"))]
      ELSE IF a.raised
      THEN [outcome |-> Raised("TaskError"), events |-> ev1 \o a.events]
      ELSE IF f.dump
      THEN [outcome |-> Raised("DumpError"),
            events |-> Append(ev2, Event("raise", "dump_xml", 0, "-", "-"))]
      ELSE [outcome |-> Returned(XMLResult(suite)), events |-> ev2]
    ELSE
      LET ev0 == <<Event("super", "run_suite", 0, kwargs, suite)>>
      IN  IF f.super
          THEN [outcome |-> Raised("SuperError"),
                events |-> Append(ev0, Event("raise", "super", 0, "-", "-"))]
          ELSE [outcome |-> Returned(WrappedResult(suite)), events |-> ev0]

\* Variant of run_suite with a finally clause: the after_suite_run hooks are
\* called also when the suite or the dump raised.
run_suite_finally(self, suite, kwargs, f) ==
    IF self.jenkins
    THEN
      LET b   == dispatch(self.tasks, "before_suite_run", kwargs, suite, f.before, 1)
          ev1 == Append(b.events, Event("run", "TextTestRunner.run", 0, "-", suite))
          ev2 == Append(ev1, Event("dump_xml", "dump_xml", 0, self.output_dir, suite))
          a   == dispatch(self.tasks, "after_suite_run", kwargs, suite, f.after, 1)
      IN
      IF b.raised
      THEN [outcome |-> Raised("TaskError"), events |-> b.events]
      ELSE IF f.run
      THEN [outcome |-> Raised("SuiteError"),
            events |-> Append(ev1, Event("raise", "run", 0, "-", "-")) \o a.events]
      ELSE IF f.dump
      THEN [outcome |-> Raised("DumpError"),
            events |-> Append(ev2, Event("raise", "dump_xml", 0, "-", "-")) \o a.events]
      ELSE IF a.raised
      THEN [outcome |-> Raised("TaskError"), events |-> ev2 \o a.events]
      ELSE [outcome |-> Returned(XMLResult(suite)), events |-> ev2 \o a.events]
    ELSE
      LET ev0 == <<Event("super", "run_suite", 0, kwargs, suite)>>
      IN  IF f.super
          THEN [outcome |-> Raised("SuperError"),
                events |-> Append(ev0, Event("raise", "super", 0, "-", "-"))]
          ELSE [outcome |-> Returned(WrappedResult(suite)), events |-> ev0]

\* f says what raises: f.super, f.run, f.dump are booleans, f.before and
\* f.after the position of the task whose hook raises, or 0.
run_suite(self, suite, kwargs, f) ==
    IF self.jenkins
    THEN
      LET b   == dispatch(self.tasks, "before_suite_run", kwargs, suite, f.before, 1)
          ev1 == Append(b.events, Event("run", "TextTestRunner.run", 0, "-", suite))
          ev2 == Append(ev1, Event("dump_xml", "dump_xml", 0, self.output_dir, suite))
          a   == dispatch(self.tasks, "after_suite_run", kwargs, suite, f.after, 1)
      IN
      IF b.raised
      THEN [outcome |-> Raised("TaskError"), events |-> b.events]
      ELSE IF f.run
      THEN [outcome |-> Raised("SuiteError"),
            events |-> Append(ev1, Event("raise", "run", 0, "-", "-"))]
      ELSE IF f.dump
      THEN [outcome |-> Raised("DumpError"),
            events |-> Append(ev2, Event("raise", "dump_xml", 0, "-", "-"))]
      ELSE IF a.raised
      THEN [outcome |-> Raised("TaskError"), events |-> ev2 \o a.events]
      ELSE [outcome |-> Returned(XMLResult(suite)), events |-> ev2 \o a.events]
    ELSE
      LET ev0 == <<Event("super", "run_suite", 0, kwargs, suite)>>
      IN  IF f.super
          THEN [outcome |-> Raised("SuperError"),
                events |-> Append(ev0, Event("raise", "super", 0, "-", "-"))]
          ELSE [outcome |-> Returned(WrappedResult(suite)), events |-> ev0]

(***************************************************************************)
(* teardown_test_environment (lines 131-136).                              *)
(***************************************************************************)
\* Variant of teardown_test_environment that calls the wrapped runner last.
teardown_wrapped_last(self, kwargs, superRaises, raiser) ==
    LET ev0 == <<Event("super", "teardown_test_environment", 0, kwargs, "-")>>
        d   == IF self.jenkins
               THEN dispatch(self.tasks, "teardown_test_environment", kwargs, "-", raiser, 1)
               ELSE [raised |-> FALSE, events |-> <<>>]
    IN
    IF d.raised
    THEN [outcome |-> Raised("TaskError"), events |-> d.events]
    ELSE IF superRaises
    THEN [outcome |-> Raised("SuperError"),
          events |-> Append(d.events \o ev0, Event("raise", "super", 0, "-", "-"))]
    ELSE [outcome |-> Returned("None"), events |-> d.events \o ev0]

teardown_test_environment(self, kwargs, superRaises, raiser) ==
    LET ev0 == <<Event("super", "teardown_test_environment", 0, kwargs, "-")>>
    IN
    IF superRaises
    THEN [outcome |-> Raised("SuperError"),
          events |-> Append(ev0, Event("raise", "super", 0, "-", "-"))]
    ELSE IF self.jenkins
    THEN LET d == dispatch(self.tasks, "teardown_test_environment", kwargs, "-", raiser, 1)
         IN  [outcome |-> IF d.raised THEN Raised("TaskError") ELSE Returned("None"),
              events |-> ev0 \o d.events]
    ELSE [outcome |-> Returned("None"), events |-> ev0]

(***************************************************************************)
(* State.                                                                  *)
(***************************************************************************)
NoCall == [op |-> "none", kwargs |-> "-", suite |-> "-"]

Init ==
    /\ settingsTASKS \in TaskLists
    /\ TASKS = settingsTASKS        \* from .settings import TASKS
    /\ runner = NoRunner
    /\ call = NoCall
    /\ trace = <<>>
    /\ outcome = NoOutcome

\* A direct call of get_tasks().
CallGetTasks ==
    LET r == get_tasks
    IN  /\ call' = [op |-> "get_tasks", kwargs |-> "-", suite |-> "-"]
        /\ trace' = r.events
        /\ outcome' = [exc |-> r.exc, value |-> "none", classes |-> r.classes]
        /\ UNCHANGED <<settingsTASKS, TASKS, runner>>

\* runner = CIRunner(jenkins=..., output_dir=..., **options)
Construct ==
    \E jenkins \in BOOLEAN, output_dir \in OutputDirs, options \in Options,
       superRaises \in BOOLEAN, ctorRaiser \in 0..Len(TASKS) :
        LET r == CIRunner_init(jenkins, output_dir, options, superRaises, ctorRaiser)
        IN  /\ call' = [op |-> "construct", kwargs |-> options, suite |-> "-"]
            /\ trace' = r.events
            /\ outcome' = r.outcome
            /\ runner' = IF r.outcome.exc = "none" THEN r.self ELSE runner
            /\ UNCHANGED <<settingsTASKS, TASKS>>

\* runner.setup_test_environment(**kwargs)
Setup ==
    /\ runner.constructed
    /\ \E kwargs \in Kwargs, superRaises \in BOOLEAN, raiser \in 0..Len(runner.tasks) :
        LET r == setup_test_environment(runner, kwargs, superRaises, raiser)
        IN  /\ call' = [op |-> "setup_test_environment", kwargs |-> kwargs, suite |-> "-"]
            /\ trace' = r.events
            /\ outcome' = r.outcome
    /\ UNCHANGED <<settingsTASKS, TASKS, runner>>

\* What may raise during run_suite on `self`: the wrapped runner's run_suite
\* (called only when jenkins is false), the before_suite_run or the
\* after_suite_run hook of a task, the execution of the suite, the XML dump.
Faults(self) ==
    IF self.jenkins
    THEN [super : {FALSE}, before : 0..Len(self.tasks), run : BOOLEAN,
          dump : BOOLEAN, after : 0..Len(self.tasks)]
    ELSE [super : BOOLEAN, before : {0}, run : {FALSE}, dump : {FALSE}, after : {0}]

\* runner.run_suite(suite, **kwargs)
RunSuite ==
    /\ runner.constructed
    /\ \E suite \in Suites, kwargs \in Kwargs, f \in Faults(runner) :
        LET r == run_suite(runner, suite, kwargs, f)
        IN  /\ call' = [op |-> "run_suite", kwargs |-> kwargs, suite |-> suite]
            /\ trace' = r.events
            /\ outcome' = r.outcome
    /\ UNCHANGED <<settingsTASKS, TASKS, runner>>

\* runner.teardown_test_environment(**kwargs)
Teardown ==
    /\ runner.constructed
    /\ \E kwargs \in Kwargs, superRaises \in BOOLEAN, raiser \in 0..Len(runner.tasks) :
        LET r == teardown_test_environment(runner, kwargs, superRaises, raiser)
        IN  /\ call' = [op |-> "teardown_test_environment", kwargs |-> kwargs, suite |-> "-"]
            /\ trace' = r.events
            /\ outcome' = r.outcome
    /\ UNCHANGED <<settingsTASKS, TASKS, runner>>

\* The configured list of settings is replaced after the runner module was
\* imported (settings.TASKS = new).
SetSettingsTasks ==
    /\ \E new \in ReplacementLists : new # settingsTASKS /\ settingsTASKS' = new
    /\ UNCHANGED <<TASKS, runner, call, trace, outcome>>

Next == CallGetTasks \/ Construct \/ Setup \/ RunSuite \/ Teardown

Spec == Init /\ [][Next]_vars

\* The same program in an environment that replaces the configured list.
InitSettings ==
    /\ settingsTASKS \in TaskLists
    /\ TASKS = settingsTASKS
    /\ runner = NoRunner
    /\ call = NoCall
    /\ trace = <<>>
    /\ outcome = NoOutcome

NextSettings == SetSettingsTasks \/ CallGetTasks \/ Construct

SpecSettings == InitSettings /\ [][NextSettings]_vars

(***************************************************************************)
(* Vocabulary of the properties.                                           *)
(***************************************************************************)
\* The class a descriptor names in the environment above, read off the
\* descriptor as a whole.
NamedClass(d) ==
    CASE d = <<"m", ".", "A">>           -> "A"
      [] d = <<"p", ".", "m", ".", "B">> -> "B"
      [] OTHER                           -> "unresolvable"

Resolvable(d) == NamedClass(d) # "unresolvable"

\* The positions of the trace that hold an event of this kind and name.
Idx(kind, name) ==
    {k \in 1..Len(trace) : trace[k].kind = kind /\ trace[k].name = name}

KindIdx(kind) == {k \in 1..Len(trace) : trace[k].kind = kind}

\* The positions of the trace that call hook h of the task at position i.
HookCallsOf(h, i) == {k \in Idx("hook", h) : trace[k].pos = i}

Lifecycle == {"setup_test_environment", "run_suite", "teardown_test_environment"}

\* The hooks a lifecycle method dispatches.
PhaseHooks(op) ==
    CASE op = "setup_test_environment"    -> {"setup_test_environment"}
      [] op = "run_suite"                 -> {"before_suite_run", "after_suite_run"}
      [] op = "teardown_test_environment" -> {"teardown_test_environment"}
      [] OTHER                            -> {}

\* The most recent call was this lifecycle method of a runner in extended mode.
Extended(op) == runner.constructed /\ runner.jenkins /\ call.op = op

TaskPositions == 1..Len(runner.tasks)

(***************************************************************************)
(* C1: a runner constructed in extended mode holds one task instance per   *)
(* configured descriptor, the i-th an instance of the class the i-th       *)
(* descriptor names; the constructor instantiates each position once.      *)
(***************************************************************************)
C1_TasksFollowConfiguration ==
    (runner.constructed /\ runner.jenkins) =>
        /\ Len(runner.tasks) = Len(TASKS)
        /\ \A i \in 1..Len(TASKS) : runner.tasks[i].cls = NamedClass(TASKS[i])
        /\ (call.op = "construct" /\ outcome.exc = "none") =>
              /\ Cardinality(KindIdx("instantiate")) = Len(TASKS)
              /\ \A i \in 1..Len(TASKS) :
                    Cardinality({k \in KindIdx("instantiate") : trace[k].pos = i}) = 1
              /\ \A j, k \in KindIdx("instantiate") :
                    j < k => trace[j].pos < trace[k].pos

C1_Witness ==
    /\ runner.constructed /\ runner.jenkins
    /\ call.op = "construct" /\ outcome.exc = "none"
    /\ TASKS = << <<"p", ".", "m", ".", "B">>, <<"m", ".", "A">> >>
    /\ Len(runner.tasks) = 2
    /\ runner.tasks[1].cls = "B" /\ runner.tasks[2].cls = "A"

(***************************************************************************)
(* C2: in extended mode, when no hook raises, each lifecycle phase calls   *)
(* the phase's hook exactly once on every task that defines it and never   *)
(* on a task that lacks it, in the order of the task list.                 *)
(***************************************************************************)
\* The dispatch of hook h ran to its end in the most recent call.
DispatchCompleted(h) ==
    CASE h = "before_suite_run" -> Idx("raise", h) = {}
      [] OTHER                  -> outcome.exc = "none"

C2_HooksInInstantiationOrder ==
    \A op \in Lifecycle : Extended(op) =>
        /\ \A k \in KindIdx("hook") : trace[k].name \in PhaseHooks(op)
        /\ \A h \in PhaseHooks(op) : DispatchCompleted(h) =>
              /\ \A i \in TaskPositions :
                    Cardinality(HookCallsOf(h, i)) =
                        IF h \in ClassHooks(runner.tasks[i].cls) THEN 1 ELSE 0
              /\ \A j, k \in Idx("hook", h) : j < k => trace[j].pos < trace[k].pos

C2_Witness ==
    /\ Extended("run_suite")
    /\ outcome.exc = "none"
    /\ Len(runner.tasks) = 2
    /\ runner.tasks[1].cls = "B" /\ runner.tasks[2].cls = "A"
    /\ Cardinality(Idx("hook", "before_suite_run")) = 1
    /\ Cardinality(KindIdx("dump_xml")) = 1

(***************************************************************************)
(* C3: with extended mode disabled no task is instantiated, every          *)
(* lifecycle call makes exactly one call, of the wrapped runner's method   *)
(* of the same name with the same arguments, no hook is called, nothing is *)
(* dumped, and run_suite returns the wrapped runner's result.              *)
(***************************************************************************)
C3_DisabledDelegates ==
    (runner.constructed /\ ~runner.jenkins) =>
        /\ runner.tasks = <<>>
        /\ (call.op = "construct" /\ outcome.exc = "none") =>
              KindIdx("instantiate") = {} /\ KindIdx("import") = {}
        /\ call.op \in Lifecycle =>
              /\ KindIdx("instantiate") = {} /\ KindIdx("import") = {}
              /\ KindIdx("hook") = {} /\ KindIdx("run") = {} /\ KindIdx("dump_xml") = {}
              /\ Cardinality(KindIdx("super")) = 1
              /\ trace[1] = Event("super", call.op, 0, call.kwargs, call.suite)
              /\ outcome.exc = "none" => Len(trace) = 1
              /\ (call.op = "run_suite" /\ outcome.exc = "none") =>
                    outcome.value = WrappedResult(call.suite)

C3_Witness ==
    /\ runner.constructed /\ ~runner.jenkins
    /\ TASKS # <<>>
    /\ call.op = "run_suite"
    /\ call.suite = "s2"
    /\ outcome.value = "wrapped_s2"

(***************************************************************************)
(* C4: get_tasks fails with ImproperlyConfigured at the first descriptor   *)
(* that cannot be resolved, returns no class list then, imports nothing    *)
(* after that descriptor, and succeeds only if every descriptor resolves.  *)
(***************************************************************************)
FirstUnresolvable ==
    IF \E i \in 1..Len(TASKS) : ~Resolvable(TASKS[i])
    THEN CHOOSE i \in 1..Len(TASKS) :
            ~Resolvable(TASKS[i]) /\ \A j \in 1..(i - 1) : Resolvable(TASKS[j])
    ELSE 0

C4_FirstFailureIsConfigurationError ==
    call.op = "get_tasks" =>
        /\ (outcome.exc = "none") <=> (FirstUnresolvable = 0)
        /\ FirstUnresolvable # 0 =>
              /\ outcome.exc = "ImproperlyConfigured"
              /\ outcome.classes = <<>>
              /\ \A k \in KindIdx("import") \cup KindIdx("getattr") :
                    trace[k].pos <= FirstUnresolvable

\* What the code does keep of C4: the first failure aborts the resolution.
C4_FirstFailureAborts ==
    call.op = "get_tasks" =>
        /\ (outcome.exc = "none") <=> (FirstUnresolvable = 0)
        /\ FirstUnresolvable # 0 =>
              /\ outcome.classes = <<>>
              /\ \A k \in KindIdx("import") \cup KindIdx("getattr") :
                    trace[k].pos <= FirstUnresolvable
              /\ Cardinality(KindIdx("raise")) = 1

(***************************************************************************)
(* C5: in extended mode run_suite calls every before_suite_run hook, then  *)
(* executes the suite, then dumps the result to the runner's output        *)
(* directory, then calls every after_suite_run hook, and returns the       *)
(* result of that execution; no before hook follows the start of the suite *)
(* and no after hook precedes the end of the dump.                         *)
(***************************************************************************)
C5_RunSuiteOrder ==
    Extended("run_suite") =>
        /\ \A b \in Idx("hook", "before_suite_run") : \A r \in KindIdx("run") : b < r
        /\ \A r \in KindIdx("run") : \A d \in KindIdx("dump_xml") : r < d
        /\ \A a \in Idx("hook", "after_suite_run") :
              /\ \E d \in KindIdx("dump_xml") : d < a
              /\ Idx("raise", "dump_xml") = {}
              /\ \A b \in Idx("hook", "before_suite_run") : b < a
        /\ outcome.exc = "none" =>
              /\ Cardinality(KindIdx("run")) = 1
              /\ Cardinality(KindIdx("dump_xml")) = 1
              /\ \A r \in KindIdx("run") : trace[r].suite = call.suite
              /\ \A d \in KindIdx("dump_xml") : trace[d].arg = runner.output_dir
              /\ outcome.value = XMLResult(call.suite)
              /\ \A i \in TaskPositions : "after_suite_run" \in ClassHooks(runner.tasks[i].cls)
                    => HookCallsOf("after_suite_run", i) # {}

C5_Witness ==
    /\ Extended("run_suite")
    /\ outcome.exc = "none" /\ outcome.value = "xml_s1"
    /\ runner.output_dir = "reports"
    /\ Len(runner.tasks) = 2
    /\ runner.tasks[1].cls = "A" /\ runner.tasks[2].cls = "A"
    /\ Len(trace) = 6

(***************************************************************************)
(* C6, as stated: in extended mode the wrapped runner's                    *)
(* teardown_test_environment is called only after the teardown hook of     *)
(* every task that defines one.                                            *)
(***************************************************************************)
C6_WrappedTeardownLast ==
    Extended("teardown_test_environment") =>
        \A s \in Idx("super", "teardown_test_environment") :
            \A i \in TaskPositions :
                "teardown_test_environment" \in ClassHooks(runner.tasks[i].cls) =>
                    \E k \in HookCallsOf("teardown_test_environment", i) : k < s

(***************************************************************************)
(* C6, amended: in extended mode the wrapped runner's                      *)
(* teardown_test_environment is called first, once, and every task         *)
(* teardown hook is called after it has returned; if it raises, no task    *)
(* hook is called.                                                         *)
(***************************************************************************)
C6_WrappedTeardownFirst ==
    Extended("teardown_test_environment") =>
        /\ Idx("super", "teardown_test_environment") = {1}
        /\ trace[1].arg = call.kwargs
        /\ \A k \in KindIdx("hook") : k > 1 /\ Idx("raise", "super") = {}

C6_Witness ==
    /\ Extended("teardown_test_environment")
    /\ outcome.exc = "none"
    /\ Len(runner.tasks) = 2
    /\ Cardinality(Idx("hook", "teardown_test_environment")) = 2
    /\ trace[1].kind = "super"

(***************************************************************************)
(* C7: in extended mode the wrapped runner's setup_test_environment is     *)
(* called first and has returned before any task's setup hook is called,   *)
(* and every task hook receives the keyword arguments of the call.         *)
(***************************************************************************)
C7_WrappedSetupFirst ==
    Extended("setup_test_environment") =>
        /\ Idx("super", "setup_test_environment") = {1}
        /\ trace[1].arg = call.kwargs
        /\ \A k \in KindIdx("hook") :
              /\ k > 1
              /\ Idx("raise", "super") = {}
              /\ trace[k].arg = call.kwargs

C7_Witness ==
    /\ Extended("setup_test_environment")
    /\ call.kwargs = "kw2"
    /\ \E k \in Idx("hook", "setup_test_environment") :
          k > 1 /\ trace[k].arg = "kw2" /\ trace[k].pos = 2

(***************************************************************************)
(* C8: in extended mode, when the hook of the task at position i raises,   *)
(* the call raises that exception, the hook of no later task is called,    *)
(* and every earlier task that defines the hook was called exactly once.   *)
(***************************************************************************)
C8_RaisingHookAborts ==
    \A op \in Lifecycle : Extended(op) =>
        \A h \in PhaseHooks(op) : \A r \in Idx("raise", h) :
            LET i == trace[r].pos
            IN  /\ outcome.exc = "TaskError" /\ outcome.value = "none"
                /\ r = Len(trace)
                /\ HookCallsOf(h, i) = {r - 1}
                /\ \A j \in TaskPositions :
                      /\ j > i => HookCallsOf(h, j) = {}
                      /\ j < i => Cardinality(HookCallsOf(h, j)) =
                            IF h \in ClassHooks(runner.tasks[j].cls) THEN 1 ELSE 0

C8_Witness ==
    /\ Extended("teardown_test_environment")
    /\ Len(runner.tasks) = 2
    /\ runner.tasks[1].cls = "A" /\ runner.tasks[2].cls = "A"
    /\ outcome.exc = "TaskError"
    /\ \E r \in Idx("raise", "teardown_test_environment") : trace[r].pos = 1

(***************************************************************************)
(* C9, as stated: every call of get_tasks, and every construction in       *)
(* extended mode, resolves the list that settings hold at that moment.     *)
(***************************************************************************)
\* The most recent call resolved the list `paths`.
ResolvedFrom(paths) ==
    /\ (outcome.exc = "none") <=> (\A i \in 1..Len(paths) : Resolvable(paths[i]))
    /\ (outcome.exc = "none" /\ call.op = "get_tasks") =>
          /\ Len(outcome.classes) = Len(paths)
          /\ \A i \in 1..Len(paths) : outcome.classes[i] = NamedClass(paths[i])
    /\ (outcome.exc = "none" /\ call.op = "construct") =>
          /\ Len(runner.tasks) = Len(paths)
          /\ \A i \in 1..Len(paths) : runner.tasks[i].cls = NamedClass(paths[i])

\* The most recent call was get_tasks(), or a construction in extended mode
\* in which nothing but get_tasks raised.
RanGetTasks ==
    \/ call.op = "get_tasks"
    \/ /\ call.op = "construct"
       /\ Idx("raise", "super") = {} /\ Idx("raise", "instantiate") = {}
       /\ outcome.exc = "none" => runner.jenkins

C9_ReadsSettingsAtCallTime == RanGetTasks => ResolvedFrom(settingsTASKS)

(***************************************************************************)
(* C9, amended: every call of get_tasks, and every construction in         *)
(* extended mode, resolves the list bound to the name TASKS of the runner  *)
(* module when that module was imported; replacing the list in settings    *)
(* afterwards changes nothing of what later calls resolve.                 *)
(***************************************************************************)
C9_ReadsImportTimeBinding == RanGetTasks => ResolvedFrom(TASKS)

C9_Witness ==
    /\ call.op = "get_tasks"
    /\ TASKS = << <<"m", ".", "A">> >>
    /\ settingsTASKS = << <<"p", ".", "m", ".", "B">> >>
    /\ outcome.exc = "none"
    /\ outcome.classes = <<"A">>

(***************************************************************************)
(* C10: in extended mode, when a before_suite_run hook raises, run_suite   *)
(* executes no suite, dumps nothing, calls no after_suite_run hook and     *)
(* returns nothing; when the suite or the dump raises, no after_suite_run  *)
(* hook is called.                                                         *)
(***************************************************************************)
C10_NoPostSuiteHooksAfterFailure ==
    Extended("run_suite") =>
        /\ Idx("raise", "before_suite_run") # {} =>
              /\ KindIdx("run") = {} /\ KindIdx("dump_xml") = {}
              /\ Idx("hook", "after_suite_run") = {}
              /\ outcome.exc # "none" /\ outcome.value = "none"
        /\ (Idx("raise", "run") # {} \/ Idx("raise", "dump_xml") # {}) =>
              /\ Idx("hook", "after_suite_run") = {}
              /\ outcome.exc # "none" /\ outcome.value = "none"
        /\ Idx("raise", "run") # {} => KindIdx("dump_xml") = {}

C10_Witness ==
    /\ Extended("run_suite")
    /\ runner.tasks # <<>> /\ runner.tasks[1].cls = "A"
    /\ Idx("raise", "dump_xml") # {}
    /\ outcome.exc = "DumpError"
====
